---- MODULE Spec2Model ----
(***************************************************************************)
(* FrameSense: the region-selection overlays and their coordination with   *)
(* screen capture.  The repository holds several iterations of the same    *)
(* flow; each is modelled from its own source file:                        *)
(*   - the native egui overlay            (src-tauri/src/overlay_native.rs) *)
(*   - the pooled webview overlay and its OverlayManager                   *)
(*                               (src-tauri/src/overlay/overlay_manager.rs) *)
(*   - the per-trigger webview overlay, the window registry and            *)
(*     capture_screen_area                       (src-tauri/src/main.rs)   *)
(*   - the channel-based result delivery          (src-tauri/src/lib.rs)   *)
(* Pointer positions are whole logical pixels.                             *)
(***************************************************************************)
EXTENDS Integers, Sequences, FiniteSets, TLC

\* ------------------------------------------------------------------ bounds

\* Largest pointer coordinate of the sampled grid.
MaxCoord == 11

\* Cap on the per-session event counters.
MaxEvents == 2

\* `width > 10 && height > 10` / `bounds.width <= 10 || bounds.height <= 10`
MinSize == 10

\* The pointer grid: the origin and the coordinates from the threshold on, so
\* that extents of 0, 1, MinSize and MinSize + 1 all occur.
Coords == {0} \cup (MinSize..MaxCoord)
Points == [x : Coords, y : Coords]
\* The points of the diagonal: extents of 0, MinSize and more than MinSize.
DiagPoints == {p \in Points : p.x = p.y}

\* Option<T>: None is the empty sequence, Some(v) the one-element sequence.
None == <<>>
Some(v) == <<v>>
Get(o) == o[1]

Min(a, b) == IF a <= b THEN a ELSE b
Max(a, b) == IF a >= b THEN a ELSE b
Abs(a) == IF a >= 0 THEN a ELSE -a

\* ----------------------------------------------------- native egui overlay

VARIABLES
    selection_mode,       \* OverlayApp.selection_mode
    selection_start,      \* OverlayApp.selection_start   (None or a point)
    selection_current,    \* OverlayApp.selection_current (None or a point)
    show_selection_box,   \* OverlayApp.show_selection_box
    eguiDragging,         \* egui: a drag of the full-rect widget is in progress
    natAnchor,            \* pointer position of the frame the drag started in
    natUp,                \* pointer position of the frame the drag stopped in
    natBounds,            \* bounds printed by "Selection completed" (None or bounds)
    natCompleted,         \* number of "Selection completed" lines of this selection mode
    natEsc                \* Escape presses seen by update() since selection mode started

nativeVars == <<selection_mode, selection_start, selection_current, show_selection_box,
                eguiDragging, natAnchor, natUp, natBounds, natCompleted, natEsc>>

NativeInit ==
    /\ selection_mode = FALSE
    /\ selection_start = None
    /\ selection_current = None
    /\ show_selection_box = FALSE
    /\ eguiDragging = FALSE
    /\ natAnchor = None
    /\ natUp = None
    /\ natBounds = None
    /\ natCompleted = 0
    /\ natEsc = 0

\* calculate_selection_bounds(start, end) -> (i32, i32, u32, u32)
calculate_selection_bounds(start, end) ==
    [x |-> Min(start.x, end.x),
     y |-> Min(start.y, end.y),
     width |-> Abs(start.x - end.x),
     height |-> Abs(start.y - end.y)]

\* The fields start_selection_mode assigns.
start_selection_mode ==
    [selection_mode |-> TRUE, selection_start |-> None,
     selection_current |-> None, show_selection_box |-> FALSE]

\* An end of selection mode that leaves the selection box on.
end_selection_mode_Mutant ==
    [selection_mode |-> FALSE, selection_start |-> None,
     selection_current |-> None, show_selection_box |-> TRUE]

\* The fields end_selection_mode assigns.
end_selection_mode ==
    [selection_mode |-> FALSE, selection_start |-> None,
     selection_current |-> None, show_selection_box |-> FALSE]

\* draw_normal_overlay: the "Start Capture" button is clicked.
NativeStartCapture ==
    /\ ~selection_mode
    /\ selection_mode' = start_selection_mode.selection_mode
    /\ selection_start' = start_selection_mode.selection_start
    /\ selection_current' = start_selection_mode.selection_current
    /\ show_selection_box' = start_selection_mode.show_selection_box
    /\ eguiDragging' = FALSE
    /\ natAnchor' = None
    /\ natUp' = None
    /\ natBounds' = None
    /\ natCompleted' = 0
    /\ natEsc' = 0

\* One frame of draw_selection_overlay.  drag_started, dragged, drag_stopped and
\* interact_pointer_pos are what egui reports for the full-rect widget in this
\* frame, esc is key_pressed(Escape).  egui reports dragged() while the button is
\* held, from the frame of drag_started() on, and drag_stopped() in the frame of
\* the release, where dragged() is false.
NativeFrame(drag_started, dragged, drag_stopped, pos, esc) ==
    /\ selection_mode
    /\ esc => natEsc < MaxEvents
    /\ natEsc' = IF esc THEN natEsc + 1 ELSE natEsc
    /\ drag_started => ~eguiDragging /\ dragged
    /\ dragged => (eguiDragging \/ drag_started) /\ ~drag_stopped
    /\ drag_stopped => eguiDragging /\ ~drag_started
    /\ LET start1 == IF drag_started THEN Some(pos) ELSE selection_start
           box1 == IF drag_started THEN TRUE ELSE show_selection_box
           cur2 == IF dragged THEN Some(pos) ELSE selection_current
           both == start1 # None /\ cur2 # None
           ended == drag_stopped \/ esc
       IN /\ selection_start' = IF ended THEN end_selection_mode.selection_start ELSE start1
          /\ selection_current' = IF ended THEN end_selection_mode.selection_current ELSE cur2
          /\ show_selection_box' = IF ended THEN end_selection_mode.show_selection_box ELSE box1
          /\ selection_mode' = IF ended THEN end_selection_mode.selection_mode ELSE TRUE
          /\ eguiDragging' = IF ended THEN FALSE ELSE (eguiDragging \/ drag_started)
          /\ natAnchor' = IF drag_started THEN Some(pos) ELSE natAnchor
          /\ natUp' = IF drag_stopped THEN Some(pos) ELSE natUp
          /\ natBounds' = IF drag_stopped /\ both
                          THEN Some(calculate_selection_bounds(Get(start1), Get(cur2)))
                          ELSE natBounds
          /\ natCompleted' = IF drag_stopped /\ both
                             THEN natCompleted + 1
                             ELSE natCompleted

NativeUpdate ==
    \E ds \in BOOLEAN, dg \in BOOLEAN, dp \in BOOLEAN, pos \in Points, esc \in BOOLEAN :
        NativeFrame(ds, dg, dp, pos, esc)

\* One frame of draw_normal_overlay in which Escape is pressed and the button is
\* not clicked: the key is not looked at outside selection mode.
NativeNormalFrame ==
    /\ ~selection_mode
    /\ natEsc < MaxEvents
    /\ natEsc' = natEsc + 1
    /\ UNCHANGED <<selection_mode, selection_start, selection_current, show_selection_box,
                   eguiDragging, natAnchor, natUp, natBounds, natCompleted>>

\* ------------------------------- pooled webview overlay and OverlayManager

\* Cap on the close requests in flight, per origin.
MaxInFlight == 1

\* Last minute of the model's clock.
MaxTime == 7

\* Duration::from_secs(300), in minutes.
IdleLimit == 5

VARIABLES
    overlay_window,    \* OverlayManager.overlay_window is Some
    is_active,         \* OverlayManager.is_active
    last_used,         \* OverlayManager.last_used (None or Some(minute))
    now,               \* Instant::now(), in minutes
    winExists,         \* the window labelled "optimized-overlay" exists
    winVisible,        \* ... and is shown
    resetPending,      \* window.eval("resetSelection()") queued, not yet run
    tauriAvail,        \* window.__TAURI__?.invoke is defined in the page
    dragging,          \* let dragging
    startX, startY,    \* let startX, startY
    box,               \* selectionBox.style: display, left, top, width, height
    isReady,           \* fastSelection.isReady
    lastBounds,        \* fastSelection.lastBounds (None or Some(bounds))
    hideTimeout,       \* window.hideTimeout: "null", "armed" or "fired"
    processingTimeout, \* the 200 ms re-enable timer is armed
    invokePc,          \* the promise chain: "idle", "optimized" or "fallback"
    closeReqUi,        \* close_transparent_overlay_optimized invokes in flight (ESC, button)
    closeReqTimer,     \* ... in flight from scheduleHide
    upObs,             \* the last finished gesture: anchor, point, bounds, accepted
    nCompleted,        \* selections accepted since the overlay was last shown
    nCancelled,        \* ESC / close-button events since the overlay was last shown
    resetRan,          \* window.resetSelection() has run since the last successful show
    showRet,           \* what the last show_selection_overlay returned: "none", "ok", "err"
    lastShow,          \* what the last successful show did: "none", "created",
                       \* "reused" (an inactive overlay) or "reused_active"
    downSeen,          \* a mousedown was handled since the overlay was last shown
    ignoredPtr,        \* the last pointer event the page dropped for want of a drag,
                       \* since the last mousedown or show: "none", "move" or "up"
    hiddenAt,          \* when hide_overlay last succeeded (None or Some(minute))
    cancelObs          \* the first ESC / close-button event since the overlay was last
                       \* shown: "none", "before_down" or "after_down"

mgrVars == <<overlay_window, is_active, last_used, now, winExists, winVisible, resetPending>>
pageVars == <<tauriAvail, dragging, startX, startY, box, isReady, lastBounds,
              hideTimeout, processingTimeout, invokePc>>
reqVars == <<closeReqUi, closeReqTimer>>
obsVars == <<upObs, nCompleted, nCancelled, lastShow, resetRan, showRet, downSeen, cancelObs, hiddenAt,
             ignoredPtr>>
poolVars == <<mgrVars, pageVars, reqVars, obsVars>>

HiddenBox == [display |-> FALSE, left |-> 0, top |-> 0, width |-> 0, height |-> 0]

\* The page's script state right after the overlay HTML has loaded.
PageLoaded(avail) ==
    /\ tauriAvail' = avail
    /\ dragging' = FALSE
    /\ startX' = 0
    /\ startY' = 0
    /\ box' = HiddenBox
    /\ isReady' = TRUE
    /\ lastBounds' = None
    /\ hideTimeout' = "null"
    /\ processingTimeout' = FALSE
    /\ invokePc' = "idle"

\* The page is gone with its window: beforeunload clears the timers.
PageUnloaded ==
    /\ UNCHANGED tauriAvail
    /\ dragging' = FALSE
    /\ startX' = 0
    /\ startY' = 0
    /\ box' = HiddenBox
    /\ isReady' = TRUE
    /\ lastBounds' = None
    /\ hideTimeout' = "null"
    /\ processingTimeout' = FALSE
    /\ invokePc' = "idle"

\* OverlayManager::new
PoolInit ==
    /\ overlay_window = FALSE
    /\ is_active = FALSE
    /\ last_used = None
    /\ now = 0
    /\ winExists = FALSE
    /\ winVisible = FALSE
    /\ resetPending = FALSE
    /\ tauriAvail = TRUE
    /\ dragging = FALSE
    /\ startX = 0
    /\ startY = 0
    /\ box = HiddenBox
    /\ isReady = TRUE
    /\ lastBounds = None
    /\ hideTimeout = "null"
    /\ processingTimeout = FALSE
    /\ invokePc = "idle"
    /\ closeReqUi = 0
    /\ closeReqTimer = 0
    /\ upObs = None
    /\ nCompleted = 0
    /\ nCancelled = 0
    /\ lastShow = "none"
    /\ resetRan = FALSE
    /\ showRet = "none"
    /\ downSeen = FALSE
    /\ cancelObs = "none"
    /\ hiddenAt = None
    /\ ignoredPtr = "none"

SessionReset ==
    /\ upObs' = None
    /\ nCompleted' = 0
    /\ nCancelled' = 0
    /\ downSeen' = FALSE
    /\ cancelObs' = "none"
    /\ ignoredPtr' = "none"
    /\ resetRan' = FALSE
    /\ showRet' = "ok"
    /\ UNCHANGED hiddenAt

\* A manager that builds a window on every show, whatever it holds.
show_selection_overlay_Mutant(showOk, evalOk, buildOk, avail) ==
    /\ buildOk
    /\ winExists' = TRUE
    /\ winVisible' = TRUE
    /\ PageLoaded(avail)
    /\ overlay_window' = TRUE
    /\ is_active' = TRUE
    /\ last_used' = Some(now)
    /\ lastShow' = "created"
    /\ SessionReset
    /\ UNCHANGED <<now, resetPending, reqVars>>

\* A show whose error path has already stamped last_used.
ShowFailed_Mutant ==
    /\ showRet' = "err"
    /\ last_used' = Some(now)
    /\ UNCHANGED <<overlay_window, is_active, now, winExists, winVisible, resetPending,
                   pageVars, reqVars, upObs, nCompleted, nCancelled, lastShow,
                   resetRan, downSeen, cancelObs, hiddenAt, ignoredPtr>>

\* show_selection_overlay returns Err: every `?` comes before the first
\* assignment to a field.
ShowFailed ==
    /\ showRet' = "err"
    /\ UNCHANGED <<mgrVars, pageVars, reqVars, upObs, nCompleted, nCancelled, lastShow,
                   resetRan, downSeen, cancelObs, hiddenAt, ignoredPtr>>

\* OverlayManager::show_selection_overlay.  showOk: window.show() succeeds on an
\* existing window; evalOk: window.eval(...) is accepted; buildOk and avail: the
\* outcome of create_overlay_once (the window label is unique in the app).
show_selection_overlay(showOk, evalOk, buildOk, avail) ==
    IF overlay_window
    THEN IF winExists /\ showOk
         THEN /\ winVisible' = TRUE
              /\ resetPending' = (resetPending \/ evalOk)
              /\ is_active' = TRUE
              /\ last_used' = Some(now)
              /\ lastShow' = IF is_active THEN "reused_active" ELSE "reused"
              /\ SessionReset
              /\ UNCHANGED <<overlay_window, now, winExists, pageVars, reqVars>>
         ELSE ShowFailed
    ELSE IF buildOk /\ ~winExists
         THEN /\ winExists' = TRUE
              /\ winVisible' = TRUE
              /\ PageLoaded(avail)
              /\ overlay_window' = TRUE
              /\ is_active' = TRUE
              /\ last_used' = Some(now)
              /\ lastShow' = "created"
              /\ SessionReset
              /\ UNCHANGED <<now, resetPending, reqVars>>
         ELSE ShowFailed

ShowOverlay ==
    \E showOk \in BOOLEAN, evalOk \in BOOLEAN, buildOk \in BOOLEAN, avail \in BOOLEAN :
        show_selection_overlay(showOk, evalOk, buildOk, avail)

\* window.resetSelection, run by the page when the queued eval arrives.
resetSelection ==
    /\ resetPending /\ winExists
    /\ resetPending' = FALSE
    /\ dragging' = FALSE
    /\ startX' = 0
    /\ startY' = 0
    /\ box' = [box EXCEPT !.display = FALSE]
    /\ hideTimeout' = "null"
    /\ resetRan' = TRUE
    /\ UNCHANGED <<overlay_window, is_active, last_used, now, winExists, winVisible,
                   tauriAvail, isReady, lastBounds, processingTimeout, invokePc,
                   reqVars, upObs, nCompleted, nCancelled, lastShow, showRet, downSeen,
                   cancelObs, hiddenAt, ignoredPtr>>

\* document mousedown (not on the close button)
mousedown(p) ==
    /\ winExists /\ winVisible
    /\ dragging' = TRUE
    /\ startX' = p.x
    /\ startY' = p.y
    /\ box' = [display |-> TRUE, left |-> p.x, top |-> p.y, width |-> 0, height |-> 0]
    /\ upObs' = None
    /\ downSeen' = TRUE
    /\ ignoredPtr' = "none"
    /\ UNCHANGED <<mgrVars, tauriAvail, isReady, lastBounds, hideTimeout,
                   processingTimeout, invokePc, reqVars, nCompleted, nCancelled, lastShow, resetRan, showRet,
                   cancelObs, hiddenAt>>

\* A mousemove handler without the `if (!dragging) return`.
mousemove_Mutant(p) ==
    /\ winExists /\ winVisible
    /\ box' = [box EXCEPT !.left = Min(startX, p.x), !.top = Min(startY, p.y),
                          !.width = Abs(p.x - startX), !.height = Abs(p.y - startY)]
    /\ ignoredPtr' = IF ~dragging THEN "move" ELSE ignoredPtr
    /\ UNCHANGED <<mgrVars, tauriAvail, dragging, startX, startY, isReady, lastBounds,
                   hideTimeout, processingTimeout, invokePc, reqVars, upObs, nCompleted,
                   nCancelled, lastShow, resetRan, showRet, downSeen, cancelObs, hiddenAt>>

\* document mousemove
mousemove(p) ==
    /\ winExists /\ winVisible
    /\ box' = IF ~dragging THEN box
              ELSE [box EXCEPT !.left = Min(startX, p.x), !.top = Min(startY, p.y),
                               !.width = Abs(p.x - startX), !.height = Abs(p.y - startY)]
    /\ ignoredPtr' = IF ~dragging THEN "move" ELSE ignoredPtr
    /\ UNCHANGED <<mgrVars, tauriAvail, dragging, startX, startY, isReady, lastBounds,
                   hideTimeout, processingTimeout, invokePc, reqVars, upObs, nCompleted,
                   nCancelled, lastShow, resetRan, showRet, downSeen, cancelObs, hiddenAt>>

\* The bounds the mouseup handler builds from the event and startX, startY.
MouseupBounds(p) ==
    [x |-> Min(startX, p.x), y |-> Min(startY, p.y),
     width |-> Abs(p.x - startX), height |-> Abs(p.y - startY)]

\* fastSelection.completedSelection's guard
SelectionAccepted_Mutant(bounds) ==
    ~(bounds.width <= MinSize \/ bounds.height <= MinSize)
SelectionAccepted(bounds) ==
    ~(~isReady \/ bounds.width <= MinSize \/ bounds.height <= MinSize)

\* document mouseup, with fastSelection.completedSelection(bounds)
mouseup(p) ==
    /\ winExists /\ winVisible
    /\ IF ~dragging
       THEN /\ ignoredPtr' = "up"
            /\ UNCHANGED <<mgrVars, pageVars, reqVars, upObs, nCompleted, nCancelled,
                           lastShow, resetRan, showRet, downSeen, cancelObs, hiddenAt>>
       ELSE LET bounds == MouseupBounds(p)
                ok == SelectionAccepted(bounds)
            IN /\ ok => nCompleted < MaxEvents
               /\ dragging' = FALSE
               /\ upObs' = Some([anchor |-> [x |-> startX, y |-> startY], point |-> p,
                                  bounds |-> bounds, accepted |-> ok])
               /\ lastBounds' = IF ok THEN Some(bounds) ELSE lastBounds
               /\ isReady' = IF ok THEN ~tauriAvail ELSE isReady
               /\ invokePc' = IF ok /\ tauriAvail THEN "optimized" ELSE invokePc
               /\ nCompleted' = IF ok THEN nCompleted + 1 ELSE nCompleted
               /\ UNCHANGED <<mgrVars, tauriAvail, startX, startY, box, hideTimeout,
                              processingTimeout, reqVars, nCancelled, lastShow, resetRan, showRet,
                              downSeen, cancelObs, hiddenAt, ignoredPtr>>

\* invoke('process_screen_selection_optimized') settles: .then(scheduleHide), or
\* the first .catch starts the fallback invoke; .finally arms the re-enable timer.
OptimizedSettled(ok) ==
    /\ winExists /\ invokePc = "optimized"
    /\ IF ok
       THEN /\ hideTimeout' = "armed"
            /\ processingTimeout' = TRUE
            /\ invokePc' = "idle"
       ELSE /\ invokePc' = "fallback"
            /\ UNCHANGED <<hideTimeout, processingTimeout>>
    /\ UNCHANGED <<mgrVars, tauriAvail, dragging, startX, startY, box, isReady,
                   lastBounds, reqVars, obsVars>>

\* invoke('process_screen_selection') settles, either way: .finally
FallbackSettled ==
    /\ winExists /\ invokePc = "fallback"
    /\ processingTimeout' = TRUE
    /\ invokePc' = "idle"
    /\ UNCHANGED <<mgrVars, tauriAvail, dragging, startX, startY, box, isReady,
                   lastBounds, hideTimeout, reqVars, obsVars>>

\* The 200 ms timer of .finally fires.  It was armed in the same task as the
\* 150 ms timer of scheduleHide, so it fires after that one.
ProcessingTimerFires ==
    /\ winExists /\ processingTimeout /\ hideTimeout # "armed"
    /\ processingTimeout' = FALSE
    /\ isReady' = TRUE
    /\ UNCHANGED <<mgrVars, tauriAvail, dragging, startX, startY, box, lastBounds,
                   hideTimeout, invokePc, reqVars, obsVars>>

\* The 150 ms timer of scheduleHide fires.
HideTimerFires ==
    /\ winExists /\ hideTimeout = "armed"
    /\ tauriAvail => closeReqTimer < MaxInFlight
    /\ hideTimeout' = "fired"
    /\ closeReqTimer' = IF tauriAvail THEN closeReqTimer + 1 ELSE closeReqTimer
    /\ UNCHANGED <<mgrVars, tauriAvail, dragging, startX, startY, box, isReady,
                   lastBounds, processingTimeout, invokePc, closeReqUi, obsVars>>

\* JavaScript window.close() on the overlay page.
WindowClosedByPage ==
    /\ winExists' = FALSE
    /\ winVisible' = FALSE
    /\ resetPending' = FALSE
    /\ PageUnloaded

\* The close button's click handler and the keydown handler for Escape.
CancelRequested ==
    /\ winExists /\ winVisible
    /\ nCancelled < MaxEvents
    /\ nCancelled' = nCancelled + 1
    /\ cancelObs' = IF cancelObs # "none" THEN cancelObs
                    ELSE IF downSeen THEN "after_down" ELSE "before_down"
    /\ IF tauriAvail
       THEN /\ closeReqUi < MaxInFlight
            /\ closeReqUi' = closeReqUi + 1
            /\ UNCHANGED <<mgrVars, pageVars, closeReqTimer>>
       ELSE /\ WindowClosedByPage
            /\ UNCHANGED <<overlay_window, is_active, last_used, now, reqVars>>
    /\ UNCHANGED <<upObs, nCompleted, lastShow, resetRan, showRet, downSeen, hiddenAt, ignoredPtr>>

EscapePressed == CancelRequested
CloseButtonClicked == CancelRequested

\* OverlayManager::hide_overlay; hideOk: window.hide() succeeds.  The result is
\* "ok" or "err".
hide_overlay_result(hideOk) ==
    IF overlay_window /\ ~(winExists /\ hideOk) THEN "err" ELSE "ok"

hide_overlay(hideOk) ==
    IF overlay_window /\ winExists /\ hideOk
    THEN /\ winVisible' = FALSE
         /\ is_active' = FALSE
         /\ hiddenAt' = Some(now)
    ELSE UNCHANGED <<winVisible, is_active, hiddenAt>>

\* A close_transparent_overlay_optimized invoke reaches the manager.  fromUi: it
\* came from ESC or the close button, whose .catch closes the window.
CloseCommand(fromUi, hideOk) ==
    /\ IF fromUi THEN closeReqUi > 0 ELSE closeReqTimer > 0
    /\ closeReqUi' = IF fromUi THEN closeReqUi - 1 ELSE closeReqUi
    /\ closeReqTimer' = IF fromUi THEN closeReqTimer ELSE closeReqTimer - 1
    /\ IF fromUi /\ winExists /\ hide_overlay_result(hideOk) = "err"
       THEN /\ WindowClosedByPage
            /\ UNCHANGED <<is_active, hiddenAt>>
       ELSE /\ hide_overlay(hideOk)
            /\ UNCHANGED <<winExists, resetPending, pageVars>>
    /\ UNCHANGED <<overlay_window, last_used, now, upObs, nCompleted, nCancelled,
                   lastShow, resetRan, showRet, downSeen, cancelObs, ignoredPtr>>

HideOverlay == \E fromUi \in BOOLEAN, hideOk \in BOOLEAN : CloseCommand(fromUi, hideOk)

\* A cleanup that does not look at is_active.
cleanup_if_old_Mutant(closeOk) ==
    /\ IF last_used # None /\ now - Get(last_used) > IdleLimit /\ overlay_window
       THEN /\ overlay_window' = FALSE
            /\ IF closeOk /\ winExists
               THEN /\ winExists' = FALSE
                    /\ winVisible' = FALSE
                    /\ resetPending' = FALSE
                    /\ PageUnloaded
               ELSE UNCHANGED <<winExists, winVisible, resetPending, pageVars>>
       ELSE UNCHANGED <<overlay_window, winExists, winVisible, resetPending, pageVars>>
    /\ UNCHANGED <<is_active, last_used, now, reqVars, obsVars>>

\* OverlayManager::cleanup_if_old; closeOk: window.close() succeeds.
cleanup_if_old(closeOk) ==
    /\ IF last_used # None /\ (now - Get(last_used) > IdleLimit /\ ~is_active)
          /\ overlay_window
       THEN /\ overlay_window' = FALSE
            /\ IF closeOk /\ winExists
               THEN /\ winExists' = FALSE
                    /\ winVisible' = FALSE
                    /\ resetPending' = FALSE
                    /\ PageUnloaded
               ELSE UNCHANGED <<winExists, winVisible, resetPending, pageVars>>
       ELSE UNCHANGED <<overlay_window, winExists, winVisible, resetPending, pageVars>>
    /\ UNCHANGED <<is_active, last_used, now, reqVars, obsVars>>

Cleanup == \E closeOk \in BOOLEAN : cleanup_if_old(closeOk)

\* A minute passes.
Tick ==
    /\ now < MaxTime
    /\ now' = now + 1
    /\ UNCHANGED <<overlay_window, is_active, last_used, winExists, winVisible,
                   resetPending, pageVars, reqVars, obsVars>>

\* ---------------------------------------------- capture_screen_area (main.rs)

\* Width of the machine integers of the model: i32 / u32 scaled down to
\* WordBits bits, with the same wrap-around arithmetic.
WordBits == 5

\* The first screen's display_info.width and display_info.height.
ScreenW == 4
ScreenH == 3

IntMin == -(2 ^ (WordBits - 1))
IntMax == (2 ^ (WordBits - 1)) - 1
UintMax == (2 ^ WordBits) - 1

\* `u as i32`: reinterpret an unsigned word as signed.
AsSigned(u) == IF u > IntMax THEN u - (2 ^ WordBits) ELSE u
\* `i as u32`: reinterpret a signed word as unsigned.
AsUnsigned(i) == IF i < 0 THEN i + (2 ^ WordBits) ELSE i
\* The signed subtraction a - b overflows.
SubOverflows(a, b) == (a - b) < IntMin \/ (a - b) > IntMax
\* a - b as the release build computes it (two's complement wrap-around).
WrappingSub(a, b) == AsSigned((a - b) % (2 ^ WordBits))

\* The requested coordinates and extents the model samples: the ends of the
\* integer ranges and the values around the screen's edges.
SampleXs == {IntMin, -1, 0, 1, ScreenW - 1, ScreenW, ScreenW + 1, IntMax}
SampleYs == {-1, 0, ScreenH - 1, ScreenH + 1}
SampleWs == {0, 1, ScreenW - 1, ScreenW, ScreenW + 1, IntMax, IntMax + 1, UintMax}
SampleHs == {0, 1, ScreenH, ScreenH + 1, UintMax}
CaptureRequests == [x : SampleXs, y : SampleYs, width : SampleWs, height : SampleHs]

VARIABLES
    capReq,      \* the CaptureBounds capture_screen_area is called with
    capDone,     \* capture_screen_area has run
    capResult,   \* its CaptureResult, once it has returned
    capPanic,    \* it panicked (debug build: arithmetic overflow)
    capOsCall    \* the bounds handed to screen.capture_area (None or Some)

capVars == <<capReq, capDone, capResult, capPanic, capOsCall>>

NoResult == [success |-> FALSE, message |-> "", bounds |-> None, image_data |-> None]

CapInit ==
    /\ capReq = [x |-> 0, y |-> 0, width |-> ScreenW, height |-> ScreenH]
    /\ capDone = FALSE
    /\ capResult = NoResult
    /\ capPanic = FALSE
    /\ capOsCall = None

\* let safe_x = bounds.x.max(0).min(max_width - bounds.width as i32);
\* (and safe_y): the clamped origin along one axis.
SafeOrigin(origin, extent, max) ==
    Min(Max(origin, 0), WrappingSub(max, AsSigned(extent)))

\* A clamp that keeps the extent strictly below the room left on the screen.
SafeExtent_Mutant(origin, extent, max) ==
    Min(extent, AsUnsigned(WrappingSub(max, SafeOrigin(origin, extent, max))) - 1)

\* let safe_width = bounds.width.min((max_width - safe_x) as u32);
\* (and safe_height): the clamped extent along one axis.
SafeExtent(origin, extent, max) ==
    Min(extent, AsUnsigned(WrappingSub(max, SafeOrigin(origin, extent, max))))

\* One of the subtractions of the clamping step overflows its i32.
ClampOverflows(origin, extent, max) ==
    \/ SubOverflows(max, AsSigned(extent))
    \/ SubOverflows(max, SafeOrigin(origin, extent, max))

\* The "Adjusted bounds" of a request on a screen of max_width x max_height.
AdjustedBounds(b, max_width, max_height) ==
    [x |-> SafeOrigin(b.x, b.width, max_width),
     y |-> SafeOrigin(b.y, b.height, max_height),
     width |-> SafeExtent(b.x, b.width, max_width),
     height |-> SafeExtent(b.y, b.height, max_height)]

FailureResult_Mutant(msg) ==
    [success |-> FALSE, message |-> msg, bounds |-> None, image_data |-> Some("")]
FailureResult(msg) ==
    [success |-> FALSE, message |-> msg, bounds |-> None, image_data |-> None]

SuccessResult(adjusted) ==
    [success |-> TRUE, message |-> "Screen area captured successfully!",
     bounds |-> Some(adjusted), image_data |-> Some("data:image/png;base64,")]

\* The clamping step of capture_screen_area overflows for this request.
RequestOverflows(b) ==
    \/ ClampOverflows(b.x, b.width, ScreenW)
    \/ ClampOverflows(b.y, b.height, ScreenH)

\* What capture_screen_area(bounds) returns when it does not panic.  screens:
\* what Screen::all() gives ("err", "empty" or "one"); captureOk:
\* screen.capture_area succeeds; pngOk: image.to_png succeeds.
CaptureResultOf(b, screens, captureOk, pngOk) ==
    IF screens = "err" THEN FailureResult("Failed to access screens")
    ELSE IF screens = "empty" THEN FailureResult("No screens available")
    ELSE IF ~captureOk THEN FailureResult("Screen capture failed")
    ELSE IF ~pngOk THEN FailureResult("Failed to encode image as PNG")
    ELSE SuccessResult(AdjustedBounds(b, ScreenW, ScreenH))

\* capture_screen_area panics: the build checks arithmetic overflow (debug) and
\* the clamping step, reached with a screen, overflows.
CapturePanics(b, screens, debug) ==
    screens = "one" /\ debug /\ RequestOverflows(b)

\* capture_screen_area(bounds), called as a command.
capture_screen_area(b, screens, captureOk, pngOk, debug) ==
    /\ ~capDone
    /\ capDone' = TRUE
    /\ UNCHANGED capReq
    /\ IF CapturePanics(b, screens, debug)
       THEN /\ capPanic' = TRUE
            /\ UNCHANGED <<capResult, capOsCall>>
       ELSE /\ capPanic' = FALSE
            /\ capResult' = CaptureResultOf(b, screens, captureOk, pngOk)
            /\ capOsCall' = IF screens = "one"
                            THEN Some(AdjustedBounds(b, ScreenW, ScreenH))
                            ELSE capOsCall

CaptureScreenArea ==
    \E screens \in {"err", "empty", "one"}, captureOk \in BOOLEAN, pngOk \in BOOLEAN,
       debug \in BOOLEAN :
        capture_screen_area(capReq, screens, captureOk, pngOk, debug)

\* ------------------------ the app's windows and the per-trigger overlay (main.rs)

MainLabel == "main"
OverlayLabel == "overlay"                   \* create_transparent_overlay
FullscreenLabel == "transparent-overlay"    \* start_fullscreen_selection
OverlayLabels == {OverlayLabel, FullscreenLabel}

VARIABLES
    windows,       \* labels of the webview windows that exist
    shown,         \* labels of the windows that are visible
    tOpener,       \* window.opener is set in the overlay page
    tTauri,        \* window.__TAURI__.invoke is defined in the overlay page
    tDragging,     \* let dragging
    tStartX, tStartY,
    tBox,          \* selectionBox.style
    tCloseTimer,   \* setTimeout(() => window.close(), 100) is armed
    tInvoke,       \* the process_screen_selection invoke in flight (None or Some(bounds))
    tPosted,       \* the SCREEN_SELECTION message posted to the opener (None or Some(bounds))
    tUpObs,        \* the last finished gesture: anchor, point, bounds, accepted
    tCaptures,     \* capture requests (message or invoke) issued by this overlay page
    uiEvent,       \* type of the last "selection-result" event emitted to the main window
    procReturn     \* how the last process_screen_selection ended: "none", "ok", "panic"

winVars == <<windows, shown>>
tPageVars == <<tOpener, tTauri, tDragging, tStartX, tStartY, tBox, tCloseTimer>>
tReqVars == <<tInvoke, tPosted>>
tObsVars == <<tUpObs, tCaptures>>
procVars == <<uiEvent, procReturn>>
trigVars == <<winVars, tPageVars, tReqVars, tObsVars, procVars>>

TrigInit ==
    /\ windows = {}
    /\ shown = {}
    /\ tOpener = FALSE
    /\ tTauri = TRUE
    /\ tDragging = FALSE
    /\ tStartX = 0
    /\ tStartY = 0
    /\ tBox = HiddenBox
    /\ tCloseTimer = FALSE
    /\ tInvoke = None
    /\ tPosted = None
    /\ tUpObs = None
    /\ tCaptures = 0
    /\ uiEvent = "none"
    /\ procReturn = "none"

\* WebviewWindowBuilder::new(app, label, ..).build(): the label must be unused.
CanBuild(label, buildOk) == buildOk /\ label \notin windows

\* on_window_event, WindowEvent::CloseRequested: the main window closes, any
\* other window is hidden and its close prevented.
WindowsAfterCloseRequested_Mutant(label) == windows \ {label}
WindowsAfterCloseRequested(label) ==
    IF label = MainLabel THEN windows \ {label} ELSE windows
ShownAfterCloseRequested(label) == shown \ {label}

\* The overlay page's script state after load, or after the page is gone.
TPageFresh(opener, tauri) ==
    /\ tOpener' = opener
    /\ tTauri' = tauri
    /\ tDragging' = FALSE
    /\ tStartX' = 0
    /\ tStartY' = 0
    /\ tBox' = HiddenBox
    /\ tCloseTimer' = FALSE

\* start_fullscreen_selection
start_fullscreen_selection(buildOk, opener, tauri) ==
    /\ CanBuild(FullscreenLabel, buildOk)
    /\ windows' = windows \cup {FullscreenLabel}
    /\ shown' = shown \cup {FullscreenLabel}
    /\ TPageFresh(opener, tauri)
    /\ tUpObs' = None
    /\ tCaptures' = 0
    /\ UNCHANGED <<tReqVars, procVars>>

\* create_transparent_overlay: an existing "overlay" window is asked to close
\* (closeOk), which on_window_event turns into a hide; then the window is built.
create_transparent_overlay(closeOk, buildOk) ==
    LET wasThere == OverlayLabel \in windows
        shown1 == IF wasThere /\ closeOk THEN ShownAfterCloseRequested(OverlayLabel)
                  ELSE shown
    IN IF CanBuild(OverlayLabel, buildOk)
       THEN /\ windows' = windows \cup {OverlayLabel}
            /\ shown' = shown1 \cup {OverlayLabel}
            /\ UNCHANGED <<tPageVars, tReqVars, tObsVars, procVars>>
       ELSE /\ shown' = shown1
            /\ UNCHANGED <<windows, tPageVars, tReqVars, tObsVars, procVars>>

\* close_transparent_overlay
close_transparent_overlay(closeOk) ==
    /\ OverlayLabel \in windows /\ closeOk
    /\ windows' = WindowsAfterCloseRequested(OverlayLabel)
    /\ shown' = ShownAfterCloseRequested(OverlayLabel)
    /\ UNCHANGED <<tPageVars, tReqVars, tObsVars, procVars>>

\* create_main_window: an existing main window is closed (closeOk; the close is
\* not prevented for "main"), then a new one is built.
create_main_window(closeOk, buildOk) ==
    LET closed == MainLabel \in windows /\ closeOk
        windows1 == IF closed THEN WindowsAfterCloseRequested(MainLabel) ELSE windows
        shown1 == IF closed THEN ShownAfterCloseRequested(MainLabel) ELSE shown
        built == buildOk /\ MainLabel \notin windows1
    IN /\ windows' = IF built THEN windows1 \cup {MainLabel} ELSE windows1
       /\ shown' = IF built THEN shown1 \cup {MainLabel} ELSE shown1
       /\ UNCHANGED <<tPageVars, tReqVars, tObsVars, procVars>>

TPageLive == FullscreenLabel \in windows
TPageInput == FullscreenLabel \in windows /\ FullscreenLabel \in shown

\* window.close() in the overlay page.  intercepted: the close arrives as a
\* CloseRequested event (on_window_event hides the window and keeps it);
\* otherwise the webview window is gone.
TWindowClose(intercepted) ==
    IF intercepted
    THEN /\ windows' = WindowsAfterCloseRequested(FullscreenLabel)
         /\ shown' = ShownAfterCloseRequested(FullscreenLabel)
         /\ UNCHANGED <<tOpener, tTauri, tStartX, tStartY, tBox>>
    ELSE /\ windows' = windows \ {FullscreenLabel}
         /\ shown' = shown \ {FullscreenLabel}
         /\ tOpener' = FALSE
         /\ tTauri' = TRUE
         /\ tStartX' = 0
         /\ tStartY' = 0
         /\ tBox' = HiddenBox

\* document mousedown (not on the close button)
tMousedown(p) ==
    /\ TPageInput
    /\ tDragging' = TRUE
    /\ tStartX' = p.x
    /\ tStartY' = p.y
    /\ tBox' = [display |-> TRUE, left |-> p.x, top |-> p.y, width |-> 0, height |-> 0]
    /\ tUpObs' = None
    /\ UNCHANGED <<winVars, tOpener, tTauri, tCloseTimer, tReqVars, tCaptures, procVars>>

\* document mousemove
tMousemove(p) ==
    /\ TPageInput
    /\ tBox' = IF ~tDragging THEN tBox
               ELSE [tBox EXCEPT !.left = Min(tStartX, p.x), !.top = Min(tStartY, p.y),
                                 !.width = Abs(p.x - tStartX), !.height = Abs(p.y - tStartY)]
    /\ UNCHANGED <<winVars, tOpener, tTauri, tDragging, tStartX, tStartY, tCloseTimer,
                   tReqVars, tObsVars, procVars>>

\* The bounds the mouseup handler computes.
TMouseupBounds(p) ==
    [x |-> Min(tStartX, p.x), y |-> Min(tStartY, p.y),
     width |-> Abs(p.x - tStartX), height |-> Abs(p.y - tStartY)]

\* if (width > 10 && height > 10)
TSelectionAccepted(bounds) == bounds.width > MinSize /\ bounds.height > MinSize

\* document mouseup
tMouseup(p, intercepted) ==
    /\ TPageInput
    /\ IF ~tDragging
       THEN UNCHANGED trigVars
       ELSE LET bounds == TMouseupBounds(p)
                ok == TSelectionAccepted(bounds)
                sends == ok /\ (tOpener \/ tTauri)
            IN /\ sends => tCaptures < MaxEvents
               /\ tDragging' = FALSE
               /\ tUpObs' = Some([anchor |-> [x |-> tStartX, y |-> tStartY], point |-> p,
                                   bounds |-> bounds, accepted |-> ok])
               /\ tCaptures' = IF sends THEN tCaptures + 1 ELSE tCaptures
               /\ tPosted' = IF ok /\ tOpener THEN Some(bounds) ELSE tPosted
               /\ tInvoke' = IF ok /\ ~tOpener /\ tTauri THEN Some(bounds) ELSE tInvoke
               /\ IF ok
                  THEN /\ tCloseTimer' = TRUE
                       /\ UNCHANGED <<winVars, tOpener, tTauri, tStartX, tStartY, tBox>>
                  ELSE /\ TWindowClose(intercepted)
                       /\ tCloseTimer' = (intercepted /\ tCloseTimer)
               /\ UNCHANGED procVars

\* keydown Escape, and the close button's click: window.close()
tCancel(intercepted) ==
    /\ TPageInput
    /\ TWindowClose(intercepted)
    /\ tDragging' = (intercepted /\ tDragging)
    /\ tCloseTimer' = (intercepted /\ tCloseTimer)
    /\ UNCHANGED <<tReqVars, tObsVars, procVars>>

\* The 100 ms timer armed by an accepted selection fires: window.close()
tCloseTimerFires(intercepted) ==
    /\ TPageLive /\ tCloseTimer
    /\ TWindowClose(intercepted)
    /\ tDragging' = (intercepted /\ tDragging)
    /\ tCloseTimer' = FALSE
    /\ UNCHANGED <<tReqVars, tObsVars, procVars>>

\* process_screen_selection(app, bounds).  emitOk: window.emit succeeds (its
\* result is unwrapped).
process_screen_selection(b, screens, captureOk, pngOk, debug, emitOk) ==
    LET result == CaptureResultOf(b, screens, captureOk, pngOk)
        hasMain == MainLabel \in windows
    IN IF CapturePanics(b, screens, debug) \/ (hasMain /\ ~emitOk)
       THEN /\ procReturn' = "panic"
            /\ UNCHANGED uiEvent
       ELSE /\ procReturn' = "ok"
            /\ uiEvent' = IF ~hasMain THEN uiEvent
                          ELSE IF result.success /\ result.image_data # None THEN "image"
                          ELSE "error"

\* The invoke of process_screen_selection issued by the overlay page arrives.
ProcessInvoke(screens, captureOk, pngOk, debug, emitOk) ==
    /\ tInvoke # None
    /\ process_screen_selection(Get(tInvoke), screens, captureOk, pngOk, debug, emitOk)
    /\ tInvoke' = None
    /\ UNCHANGED <<winVars, tPageVars, tPosted, tObsVars>>

\* ------------------------------- the selection commands of the library (lib.rs)

\* OverlaySelection / CaptureBounds values sent by an overlay page.
CoSelections ==
    {[x |-> 0, y |-> 0, width |-> ScreenW, height |-> ScreenH],
     [x |-> 0 - 1, y |-> 1, width |-> ScreenW, height |-> ScreenH]}

EmptyImage == ""            \* String::new()
PngImage == "png"           \* a non-empty encoded image

VARIABLES
    overlay_sender,   \* AppState.overlay_sender: None or Some("tx")
    rxAlive,          \* the receiving end of the channel has not been dropped
    channel,          \* results sent and not yet received
    session,          \* state of the caller of start_selection: "Idle" or "Awaiting"
    startRet,         \* result of the last start_selection: "none", "ok", "active"
    delivered,        \* the result the caller received (None or Some(result))
    coRequest,        \* the selection, if the last command was overlay_selection_completed
    coCapture,        \* what capture_region returned to it (None = Err)
    coResult,         \* the SelectionResult the last command built
    coRet,            \* what the last command returned: "none", "ok", "err"
    coLost,           \* results built while no sender was installed
    coSent            \* results sent since the sender was installed

chanVars == <<overlay_sender, rxAlive, channel>>
callerVars == <<session, startRet, delivered>>
cmdVars == <<coRequest, coCapture, coResult, coRet, coLost, coSent>>
coVars == <<chanVars, callerVars, cmdVars>>

\* AppState::default()
CoInit ==
    /\ overlay_sender = None
    /\ rxAlive = FALSE
    /\ channel = <<>>
    /\ session = "Idle"
    /\ startRet = "none"
    /\ delivered = None
    /\ coRequest = None
    /\ coCapture = None
    /\ coResult = None
    /\ coRet = "none"
    /\ coLost = 0
    /\ coSent = 0

\* ScreenCapture::capture_region, by its contract: the requested bounds clamped
\* into the screen and a PNG image, or an error (None).
ClampedToScreen(b) ==
    LET x1 == Max(b.x, 0)
        y1 == Max(b.y, 0)
        x2 == Min(b.x + b.width, ScreenW)
        y2 == Min(b.y + b.height, ScreenH)
    IN [x |-> x1, y |-> y1, width |-> Max(x2 - x1, 0), height |-> Max(y2 - y1, 0)]

capture_region(bounds, captureOk) ==
    IF captureOk
    THEN Some([bounds |-> ClampedToScreen(bounds), image_data |-> PngImage])
    ELSE None

\* A builder that reports a failed capture as a completed one.
CompletedResult_Mutant(bounds, capture) ==
    IF capture # None
    THEN [bounds |-> Get(capture).bounds, image_data |-> Get(capture).image_data,
          cancelled |-> FALSE]
    ELSE [bounds |-> ClampedToScreen(bounds), image_data |-> EmptyImage, cancelled |-> FALSE]

\* The SelectionResult overlay_selection_completed builds from the outcome of
\* capture_region.
CompletedResult(bounds, capture) ==
    IF capture # None
    THEN [bounds |-> Get(capture).bounds, image_data |-> Get(capture).image_data,
          cancelled |-> FALSE]
    ELSE [bounds |-> bounds, image_data |-> EmptyImage, cancelled |-> TRUE]

\* The SelectionResult overlay_selection_cancelled builds.
CancelledResult ==
    [bounds |-> [x |-> 0, y |-> 0, width |-> 0, height |-> 0],
     image_data |-> EmptyImage, cancelled |-> TRUE]

\* if let Some(sender) = ...as_ref() { sender.send(result).map_err(..)?; } Ok(())
SendThroughChannel(result) ==
    /\ coResult' = Some(result)
    /\ IF overlay_sender = None
       THEN /\ coLost < MaxEvents
            /\ coLost' = coLost + 1
            /\ coRet' = "ok"
            /\ UNCHANGED <<channel, coSent>>
       ELSE IF rxAlive
       THEN /\ Len(channel) < MaxEvents
            /\ channel' = Append(channel, result)
            /\ coSent' = coSent + 1
            /\ coRet' = "ok"
            /\ UNCHANGED coLost
       ELSE /\ coRet' = "err"
            /\ UNCHANGED <<channel, coSent, coLost>>
    /\ UNCHANGED <<overlay_sender, rxAlive, callerVars>>

\* overlay_selection_completed(selection, app_handle)
overlay_selection_completed(selection, captureOk) ==
    LET capture == capture_region(selection, captureOk)
    IN /\ coRequest' = Some(selection)
       /\ coCapture' = capture
       /\ SendThroughChannel(CompletedResult(selection, capture))

\* overlay_selection_cancelled(app_handle)
overlay_selection_cancelled ==
    /\ coRequest' = None
    /\ coCapture' = None
    /\ SendThroughChannel(CancelledResult)

\* SelectionOverlay::start_selection, by the coordinator's contract: it needs an
\* idle coordinator, installs the delivery channel and awaits the result.
start_selection ==
    IF session # "Idle"
    THEN /\ startRet' = "active"
         /\ UNCHANGED <<chanVars, session, delivered, cmdVars>>
    ELSE /\ startRet' = "ok"
         /\ session' = "Awaiting"
         /\ overlay_sender' = Some("tx")
         /\ rxAlive' = TRUE
         /\ channel' = <<>>
         /\ delivered' = None
         /\ coSent' = 0
         /\ UNCHANGED <<coRequest, coCapture, coResult, coRet, coLost>>

\* The awaiting caller receives the result and returns; the receiving end is
\* dropped.  clears: the sender is removed from the state as well.
ReceiveResult(clears) ==
    /\ session = "Awaiting" /\ rxAlive /\ channel # <<>>
    /\ delivered' = Some(Head(channel))
    /\ channel' = <<>>
    /\ rxAlive' = FALSE
    /\ session' = "Idle"
    /\ overlay_sender' = IF clears THEN None ELSE overlay_sender
    /\ UNCHANGED <<startRet, cmdVars>>

\* ---------------------------------------------------------------------------
\* main.rs: the Alt+Space handler, the close-request handler and the life of
\* the process.  Each key press is handled on its own spawned thread:
\*   sleep 50 ms; look up "main";
\*     found:     emit "save-state-and-close"; sleep 100 ms; close the handle;
\*                record the close time;
\*     not found: exit the process if a close was recorded less than 3 s ago,
\*                otherwise run create_main_window.
\* No lock is held between the look-up and the close or create that follows.

MaxThreads == 2        \* handler threads alive at the same time
TicksPerSec == 2       \* clock readings told apart within one second
MaxClock == 8          \* wall-clock time explored, in ticks
QuitWindowSecs == 3    \* time_since_closed < 3

Threads == 1 .. MaxThreads

VARIABLES
    hkPc,                     \* where each spawned handler thread is
    last_window_closed_time,  \* AppState::last_window_closed_time (None or Some(secs))
    unixNow,                  \* SystemTime::now(), in ticks since the epoch
    running,                  \* the process has neither exited nor panicked on its main thread
    hkReleases                \* a key-release event has been received

hkVars == <<hkPc, last_window_closed_time, unixNow, running, hkReleases>>

HkInit ==
    /\ hkPc = [t \in Threads |-> "idle"]
    /\ last_window_closed_time = None
    /\ unixNow = 0
    /\ running = TRUE
    /\ hkReleases = FALSE

\* A handle to a window that has been destroyed closes nothing: the handles
\* held by the threads sleeping before their close become stale.
HandlesAfter(pc, destroyed) ==
    IF destroyed
    THEN [t \in Threads |-> IF pc[t] = "closing" THEN "closingStale" ELSE pc[t]]
    ELSE pc

\* on_window_event, CloseRequested: window.hide().unwrap() runs for every
\* window but "main"; an Err from hide panics on the event-loop thread.
HandlerPanics(label, requested, hideOk) ==
    requested /\ label # MainLabel /\ ~hideOk

\* SystemTime::now().duration_since(UNIX_EPOCH).unwrap().as_secs(): whole
\* seconds, the fraction is dropped.
as_secs(ticks) == ticks \div TicksPerSec

\* let time_since_closed = now - last_closed; time_since_closed < 3
should_quit_Mutant ==
    /\ last_window_closed_time # None
    /\ as_secs(unixNow) - Get(last_window_closed_time) <= QuitWindowSecs
should_quit ==
    /\ last_window_closed_time # None
    /\ as_secs(unixNow) - Get(last_window_closed_time) < QuitWindowSecs

\* with_handler, ShortcutState::Pressed: a thread is spawned.
shortcut_pressed(t) ==
    /\ running
    /\ hkPc[t] = "idle"
    /\ hkPc' = [hkPc EXCEPT ![t] = "spawned"]
    /\ UNCHANGED <<last_window_closed_time, unixNow, running, hkReleases, trigVars>>

\* with_handler, any other state: "Ignoring key release".
shortcut_released ==
    /\ running
    /\ hkReleases' = TRUE
    /\ UNCHANGED <<hkPc, last_window_closed_time, unixNow, running, trigVars>>

\* The spawned thread after its 50 ms sleep: get_webview_window("main") and
\* the branch taken; in the else-branch the quit test, and process::exit(0).
handler_lookup(t) ==
    /\ running
    /\ hkPc[t] = "spawned"
    /\ IF MainLabel \in windows
       THEN /\ hkPc' = [hkPc EXCEPT ![t] = "closing"]
            /\ UNCHANGED running
       ELSE IF should_quit
       THEN /\ running' = FALSE
            /\ hkPc' = [hkPc EXCEPT ![t] = "idle"]
       ELSE /\ hkPc' = [hkPc EXCEPT ![t] = "creating"]
            /\ UNCHANGED running
    /\ UNCHANGED <<last_window_closed_time, unixNow, hkReleases, trigVars>>

\* The spawned thread after its 100 ms sleep: let _ = window.close(); then the
\* close time is recorded.  While the event loop runs the close request is
\* delivered; it finds a window only if the handle is not stale.
handler_close(t) ==
    /\ running
    /\ hkPc[t] \in {"closing", "closingStale"}
    /\ LET closes == hkPc[t] = "closing" /\ MainLabel \in windows
       IN /\ windows' = IF closes THEN WindowsAfterCloseRequested(MainLabel) ELSE windows
          /\ shown' = IF closes THEN ShownAfterCloseRequested(MainLabel) ELSE shown
          /\ hkPc' = [HandlesAfter(hkPc, closes) EXCEPT ![t] = "idle"]
    /\ last_window_closed_time' = Some(as_secs(unixNow))
    /\ UNCHANGED <<unixNow, running, hkReleases, tPageVars, tReqVars, tObsVars, procVars>>

\* The spawned thread in its else-branch: rt.block_on(create_main_window(..));
\* an Err is only printed.
handler_create(t, closeOk, buildOk) ==
    /\ running
    /\ hkPc[t] = "creating"
    /\ create_main_window(closeOk, buildOk)
    /\ hkPc' = [HandlesAfter(hkPc, MainLabel \in windows /\ closeOk) EXCEPT ![t] = "idle"]
    /\ UNCHANGED <<last_window_closed_time, unixNow, running, hkReleases>>

\* Time passes.
ClockTick ==
    /\ running
    /\ unixNow < MaxClock
    /\ unixNow' = unixNow + 1
    /\ UNCHANGED <<hkPc, last_window_closed_time, running, hkReleases, trigVars>>

\* A command that sends a close request to the "overlay" window, with the
\* outcome of the hide in the close-request handler.
overlay_close_requested(step, requested, hideOk) ==
    /\ running
    /\ IF HandlerPanics(OverlayLabel, requested, hideOk)
       THEN /\ running' = FALSE
            /\ UNCHANGED trigVars
       ELSE /\ step
            /\ UNCHANGED running
    /\ UNCHANGED <<hkPc, last_window_closed_time, unixNow, hkReleases>>

\* Requests the main window's page sends to process_screen_selection.
AppSelections ==
    {b \in CaptureRequests :
        b.x = 0 /\ b.y = 0 /\ b.width \in {1, UintMax} /\ b.height = 1}

\* process_screen_selection invoked while the process runs; a panic unwinds
\* the command's task only.
app_process_selection(b, screens, captureOk, pngOk, debug, emitOk) ==
    /\ running
    /\ process_screen_selection(b, screens, captureOk, pngOk, debug, emitOk)
    /\ UNCHANGED <<winVars, tPageVars, tReqVars, tObsVars, hkVars>>

MouseDown == \E p \in Points : mousedown(p) /\ UNCHANGED <<nativeVars, capVars, trigVars, coVars, hkVars>>
MouseMove == \E p \in DiagPoints : mousemove(p) /\ UNCHANGED <<nativeVars, capVars, trigVars, coVars, hkVars>>
MouseUp == \E p \in Points : mouseup(p) /\ UNCHANGED <<nativeVars, capVars, trigVars, coVars, hkVars>>
DiagMouseDown == \E p \in DiagPoints : mousedown(p) /\ UNCHANGED <<nativeVars, capVars, trigVars, coVars, hkVars>>
DiagMouseUp == \E p \in DiagPoints : mouseup(p) /\ UNCHANGED <<nativeVars, capVars, trigVars, coVars, hkVars>>
OptimizedDone == \E ok \in BOOLEAN : OptimizedSettled(ok) /\ UNCHANGED <<nativeVars, capVars, trigVars, coVars, hkVars>>
FallbackDone == FallbackSettled /\ UNCHANGED <<nativeVars, capVars, trigVars, coVars, hkVars>>
ProcessingTimer == ProcessingTimerFires /\ UNCHANGED <<nativeVars, capVars, trigVars, coVars, hkVars>>
HideTimer == HideTimerFires /\ UNCHANGED <<nativeVars, capVars, trigVars, coVars, hkVars>>
Show == ShowOverlay /\ UNCHANGED <<nativeVars, capVars, trigVars, coVars, hkVars>>
FirstShow == ~overlay_window /\ ShowOverlay /\ UNCHANGED <<nativeVars, capVars, trigVars, coVars, hkVars>>
Reset == resetSelection /\ UNCHANGED <<nativeVars, capVars, trigVars, coVars, hkVars>>
Escape == EscapePressed /\ UNCHANGED <<nativeVars, capVars, trigVars, coVars, hkVars>>
CloseButton == CloseButtonClicked /\ UNCHANGED <<nativeVars, capVars, trigVars, coVars, hkVars>>
Hide == HideOverlay /\ UNCHANGED <<nativeVars, capVars, trigVars, coVars, hkVars>>

\* The host calls OverlayManager::hide_overlay, cleanup_if_old; time passes.
HideCall ==
    \E hideOk \in BOOLEAN :
        /\ hide_overlay(hideOk)
        /\ UNCHANGED <<overlay_window, last_used, now, winExists, resetPending, pageVars,
                       reqVars, upObs, nCompleted, nCancelled, lastShow, resetRan, showRet, downSeen, cancelObs,
                       ignoredPtr>>
        /\ UNCHANGED <<nativeVars, capVars, trigVars, coVars, hkVars>>
CleanupPass == Cleanup /\ UNCHANGED <<nativeVars, capVars, trigVars, coVars, hkVars>>
TimePasses == Tick /\ UNCHANGED <<nativeVars, capVars, trigVars, coVars, hkVars>>

\* One shown overlay: gestures over the whole grid and the promise chain.
GestureNext ==
    \/ FirstShow
    \/ MouseDown
    \/ MouseMove
    \/ MouseUp
    \/ OptimizedDone
    \/ FallbackDone
    \/ ProcessingTimer

\* The pooled overlay across sessions: show, gestures on the diagonal, the
\* promise chain, cancel and hide.
PoolNext ==
    \/ Show
    \/ Reset
    \/ DiagMouseDown
    \/ DiagMouseUp
    \/ OptimizedDone
    \/ FallbackDone
    \/ ProcessingTimer
    \/ HideTimer
    \/ Escape
    \/ CloseButton
    \/ Hide

NativeNext ==
    \/ NativeStartCapture /\ UNCHANGED <<poolVars, capVars, trigVars, coVars, hkVars>>
    \/ NativeUpdate /\ UNCHANGED <<poolVars, capVars, trigVars, coVars, hkVars>>
    \/ NativeNormalFrame /\ UNCHANGED <<poolVars, capVars, trigVars, coVars, hkVars>>

CapNext ==
    \/ CaptureScreenArea /\ UNCHANGED <<nativeVars, poolVars, trigVars, coVars, hkVars>>

OtherThanTrig == <<nativeVars, poolVars, capVars, coVars, hkVars>>

StartFullscreenSelection ==
    \E buildOk \in BOOLEAN, opener \in BOOLEAN, tauri \in BOOLEAN :
        start_fullscreen_selection(buildOk, opener, tauri) /\ UNCHANGED OtherThanTrig
CreateTransparentOverlay ==
    \E closeOk \in BOOLEAN, buildOk \in BOOLEAN :
        create_transparent_overlay(closeOk, buildOk) /\ UNCHANGED OtherThanTrig
CloseTransparentOverlay ==
    \E closeOk \in BOOLEAN : close_transparent_overlay(closeOk) /\ UNCHANGED OtherThanTrig
CreateMainWindow ==
    \E closeOk \in BOOLEAN, buildOk \in BOOLEAN :
        create_main_window(closeOk, buildOk) /\ UNCHANGED OtherThanTrig
TMouseDown == \E p \in DiagPoints : tMousedown(p) /\ UNCHANGED OtherThanTrig
TMouseMove == \E p \in DiagPoints : tMousemove(p) /\ UNCHANGED OtherThanTrig
TMouseUp ==
    \E p \in DiagPoints, intercepted \in BOOLEAN :
        tMouseup(p, intercepted) /\ UNCHANGED OtherThanTrig
TEscape == \E intercepted \in BOOLEAN : tCancel(intercepted) /\ UNCHANGED OtherThanTrig
TCloseButton == \E intercepted \in BOOLEAN : tCancel(intercepted) /\ UNCHANGED OtherThanTrig
TCloseTimer ==
    \E intercepted \in BOOLEAN : tCloseTimerFires(intercepted) /\ UNCHANGED OtherThanTrig
ProcessScreenSelection ==
    \E screens \in {"err", "empty", "one"}, captureOk \in BOOLEAN, pngOk \in BOOLEAN,
       debug \in BOOLEAN, emitOk \in BOOLEAN :
        ProcessInvoke(screens, captureOk, pngOk, debug, emitOk) /\ UNCHANGED OtherThanTrig

\* The main.rs app: its windows, the per-trigger overlay and the processing of
\* an accepted selection.
TrigNext ==
    \/ StartFullscreenSelection
    \/ CreateTransparentOverlay
    \/ CloseTransparentOverlay
    \/ CreateMainWindow
    \/ TMouseDown
    \/ TMouseMove
    \/ TMouseUp
    \/ TEscape
    \/ TCloseButton
    \/ TCloseTimer
    \/ ProcessScreenSelection

OtherThanCo == <<nativeVars, poolVars, capVars, trigVars, hkVars>>

OverlaySelectionCompleted ==
    \E selection \in CoSelections, captureOk \in BOOLEAN :
        overlay_selection_completed(selection, captureOk) /\ UNCHANGED OtherThanCo
OverlaySelectionCancelled == overlay_selection_cancelled /\ UNCHANGED OtherThanCo
StartSelection == start_selection /\ UNCHANGED OtherThanCo
Receive == \E clears \in BOOLEAN : ReceiveResult(clears) /\ UNCHANGED OtherThanCo

\* The lib.rs commands around the delivery channel.
CoNext ==
    \/ OverlaySelectionCompleted
    \/ OverlaySelectionCancelled
    \/ StartSelection
    \/ Receive

vars == <<nativeVars, poolVars, capVars, trigVars, coVars, hkVars>>

Init == NativeInit /\ PoolInit /\ CapInit /\ TrigInit /\ CoInit /\ HkInit

SpecCo == Init /\ [][CoNext]_vars

SpecTrig == Init /\ [][TrigNext]_vars

OtherThanApp == <<nativeVars, poolVars, capVars, coVars>>

ShortcutPressed == \E t \in Threads : shortcut_pressed(t) /\ UNCHANGED OtherThanApp
ShortcutReleased == shortcut_released /\ UNCHANGED OtherThanApp
HandlerLookup == \E t \in Threads : handler_lookup(t) /\ UNCHANGED OtherThanApp
HandlerClose == \E t \in Threads : handler_close(t) /\ UNCHANGED OtherThanApp
HandlerCreate ==
    \E t \in Threads, closeOk \in BOOLEAN, buildOk \in BOOLEAN :
        handler_create(t, closeOk, buildOk) /\ UNCHANGED OtherThanApp
TimeGoesBy == ClockTick /\ UNCHANGED OtherThanApp
OverlayCreated ==
    \E closeOk \in BOOLEAN, buildOk \in BOOLEAN, hideOk \in BOOLEAN :
        /\ overlay_close_requested(create_transparent_overlay(closeOk, buildOk),
                                   OverlayLabel \in windows /\ closeOk, hideOk)
        /\ UNCHANGED OtherThanApp
OverlayClosed ==
    \E closeOk \in BOOLEAN, hideOk \in BOOLEAN :
        /\ overlay_close_requested(close_transparent_overlay(closeOk),
                                   OverlayLabel \in windows /\ closeOk, hideOk)
        /\ UNCHANGED OtherThanApp
SelectionProcessed ==
    \E b \in AppSelections, screens \in {"err", "one"}, captureOk \in BOOLEAN,
       debug \in BOOLEAN, emitOk \in BOOLEAN :
        /\ app_process_selection(b, screens, captureOk, TRUE, debug, emitOk)
        /\ UNCHANGED OtherThanApp

\* The tray app as a whole: hotkey presses and releases, the handler threads,
\* the overlay window commands and the processing of a selection.
AppNext ==
    \/ ShortcutPressed
    \/ HandlerLookup
    \/ HandlerClose
    \/ HandlerCreate
    \/ TimeGoesBy
    \/ OverlayCreated
    \/ OverlayClosed
    \/ SelectionProcessed

SpecApp == Init /\ [][AppNext]_vars

\* The hotkey alone: key events, the handler threads and the clock.
HotkeyNext ==
    \/ ShortcutPressed
    \/ ShortcutReleased
    \/ HandlerLookup
    \/ HandlerClose
    \/ HandlerCreate
    \/ TimeGoesBy

SpecHotkey == Init /\ [][HotkeyNext]_vars

\* capture_screen_area called once with each sampled request.
InitCap ==
    /\ NativeInit /\ PoolInit /\ TrigInit /\ CoInit /\ HkInit
    /\ capReq \in CaptureRequests
    /\ capDone = FALSE
    /\ capResult = NoResult
    /\ capPanic = FALSE
    /\ capOsCall = None

SpecCap == InitCap /\ [][CapNext]_vars

SpecNative == Init /\ [][NativeNext]_vars

SpecPool == Init /\ [][PoolNext]_vars

\* The OverlayManager as its owner drives it: show, hide, the cleanup pass, and
\* the page running a queued reset.
MgrNext ==
    \/ Show
    \/ Reset
    \/ HideCall
    \/ CleanupPass
    \/ TimePasses

SpecMgr == Init /\ [][MgrNext]_vars

SpecGesture == Init /\ [][GestureNext]_vars

\* The pooled overlay through its sessions of selecting and processing: shows,
\* drags, the promise chain of an accepted selection, its timers and the hide
\* they lead to.
ProcessingNext ==
    \/ Show
    \/ Reset
    \/ DiagMouseDown
    \/ DiagMouseUp
    \/ OptimizedDone
    \/ FallbackDone
    \/ ProcessingTimer
    \/ HideTimer
    \/ Hide

SpecProcessing == Init /\ [][ProcessingNext]_vars

\* The close command as invoked by the hide timer, and as invoked by ESC or the
\* close button: each invoke is handled.
HideFromTimer ==
    /\ \E hideOk \in BOOLEAN : CloseCommand(FALSE, hideOk)
    /\ UNCHANGED <<nativeVars, capVars, trigVars, coVars, hkVars>>
HideFromUi ==
    /\ \E hideOk \in BOOLEAN : CloseCommand(TRUE, hideOk)
    /\ UNCHANGED <<nativeVars, capVars, trigVars, coVars, hkVars>>

\* The overlay manager and its page with the scheduling the runtime provides:
\* a pending promise settles, an armed timer fires, a queued script runs and an
\* invoked command is handled.  What the user does is not constrained.
SpecPoolFair ==
    /\ Init /\ [][PoolNext]_vars
    /\ WF_vars(OptimizedDone)
    /\ WF_vars(FallbackDone)
    /\ WF_vars(ProcessingTimer)
    /\ WF_vars(HideTimer)
    /\ WF_vars(Reset)
    /\ WF_vars(HideFromTimer)
    /\ WF_vars(HideFromUi)

\* ------------------------------------------------------------------ claims

\* The rectangle spanned by an anchor a and a point p, normalised.
NormalizedBounds(a, p) ==
    [x |-> Min(a.x, p.x), y |-> Min(a.y, p.y),
     width |-> Abs(a.x - p.x), height |-> Abs(a.y - p.y)]

TooSmall(b) == b.width <= MinSize \/ b.height <= MinSize

\* C1 (native overlay): the bounds computed when the drag stops are the
\* normalised rectangle of the pointer-down anchor and the pointer-up point.
C1_NativeBoundsFromAnchorAndUpPoint ==
    natBounds # None => Get(natBounds) = NormalizedBounds(Get(natAnchor), Get(natUp))

\* C1 (pooled webview overlay): the bounds the mouseup handler computes are the
\* normalised rectangle of the mousedown anchor and the mouseup point, whatever
\* mousemoves came between.
PooledBoundsFromAnchorAndUpPoint ==
    upObs # None =>
        /\ Get(upObs).bounds = NormalizedBounds(Get(upObs).anchor, Get(upObs).point)
        /\ Get(upObs).bounds.width >= 0
        /\ Get(upObs).bounds.height >= 0

\* C2 (native overlay): a drag whose bounds have width <= 10 or height <= 10 is
\* never reported as a completed selection.
C2_NativeTooSmallNeverCompleted ==
    (natBounds # None /\ TooSmall(Get(natBounds))) => natCompleted = 0

\* C2 (pooled webview overlay): a mouseup whose bounds have width <= 10 or
\* height <= 10 is not accepted, and an accepted one is more than 10 in both.
PooledTooSmallNeverAccepted ==
    upObs # None =>
        /\ TooSmall(Get(upObs).bounds) => ~Get(upObs).accepted
        /\ Get(upObs).accepted =>
               Get(upObs).bounds.width > MinSize /\ Get(upObs).bounds.height > MinSize

\* C3: the adjusted bounds capture_screen_area hands to the capture call and
\* returns lie inside the screen rectangle.
C3_AdjustedBoundsInsideScreen ==
    capOsCall # None =>
        LET b == Get(capOsCall)
        IN /\ 0 <= b.x
           /\ 0 <= b.y
           /\ b.x + b.width <= ScreenW
           /\ b.y + b.height <= ScreenH


\* C4: while a selection session is active, a second show request is rejected
\* and leaves the session as it is: no show succeeds on an overlay whose
\* is_active flag is set.
C4_ShowWhileActiveIsRejected ==
    lastShow # "reused_active"

\* C5: at most one overlay window exists at any time, whatever sequence of
\* trigger, create and close commands ran.
C5_AtMostOneOverlayWindow ==
    Cardinality(windows \cap OverlayLabels) <= 1

\* C6: between the show of the overlay and its hide, at most one terminal
\* outcome (an accepted selection or a cancellation) is observed.
C6_OneTerminalOutcomePerSession ==
    nCompleted + nCancelled <= 1

\* C7: every result a command builds is handed to the channel of the caller
\* that started the session, and no session gets more than one.
C7_ResultDeliveredExactlyOnce ==
    coLost = 0 /\ coSent <= 1

\* C8: after overlay_selection_completed, a failed capture gives a result with
\* the requested bounds, an empty image and cancelled = TRUE; a successful one
\* gives the captured bounds, its non-empty image and cancelled = FALSE.
C8_ResultMatchesCaptureOutcome ==
    coRequest # None =>
        LET r == Get(coResult)
        IN IF coCapture = None
           THEN /\ r.bounds = Get(coRequest)
                /\ r.image_data = EmptyImage
                /\ r.cancelled
           ELSE /\ r.bounds = Get(coCapture).bounds
                /\ r.image_data = Get(coCapture).image_data
                /\ r.image_data # EmptyImage
                /\ ~r.cancelled

\* A capture failed for a selection that reaches outside the screen.
C8_Witness ==
    /\ coRequest # None
    /\ coCapture = None
    /\ Get(coRequest) # ClampedToScreen(Get(coRequest))
    /\ Get(coResult).cancelled

\* C9: a failure of the capture never reaches the user interface as an error:
\* no "selection-result" event of type "error" is emitted to the main window.
C9_ProviderFailureNeverSurfacesAsError ==
    uiEvent # "error"

\* C10: when ESC or the close button comes before any pointer-down, the result
\* with zero bounds, empty image and cancelled = TRUE goes to the caller.
C10_CancelBeforePointerDownDeliversResult ==
    cancelObs = "before_down" =>
        \/ delivered = Some(CancelledResult)
        \/ \E i \in 1..Len(channel) : channel[i] = CancelledResult

\* C11: a pointer-up whose bounds are too small ends the session: afterwards
\* the overlay is hidden or closed, or its hide is on the way.
C11_TooSmallPointerUpEndsSession ==
    (upObs # None /\ TooSmall(Get(upObs).bounds)) =>
        \/ ~winVisible
        \/ closeReqUi > 0
        \/ closeReqTimer > 0
        \/ hideTimeout = "armed"

\* C12: once the processing of an accepted selection has failed (the optimized
\* command was rejected and the fallback is running), the overlay is eventually
\* hidden and marked inactive, as on every other path out of a session.
C12_FailedProcessingEventuallyHides ==
    (invokePc = "fallback") ~> (~winVisible /\ ~is_active)

\* C13: a hide_overlay that succeeds leaves the window invisible and inactive
\* but still held by the manager, and the next successful show of a held,
\* inactive window reuses it instead of creating one.
C13_HideKeepsSurfacePooled ==
    [][ /\ (is_active /\ ~is_active') =>
              (overlay_window /\ overlay_window' /\ winExists' /\ ~winVisible')
        /\ (overlay_window /\ winExists /\ ~is_active /\ is_active') =>
              (lastShow' = "reused" /\ overlay_window' /\ winExists' /\ winVisible')
      ]_vars

\* A hidden overlay was shown again and reused.
C13_Witness ==
    lastShow = "reused" /\ hiddenAt # None /\ is_active /\ winVisible

\* C14: the cleanup pass gives up the pooled window only when the overlay is
\* not active and more than the idle limit has passed since its last session
\* ended (its last successful hide).
C14_CleanupOnlyAfterIdleLimit ==
    [][ (overlay_window /\ ~overlay_window') =>
            /\ ~is_active
            /\ (hiddenAt # None => now - Get(hiddenAt) > IdleLimit)
      ]_vars

\* C15: a show starts the session idle: while the overlay is shown, no reset is
\* still queued and no pointer-down has come since the show, no drag is in
\* progress and the anchor is cleared.
C15_ShowStartsSessionIdle ==
    (winExists /\ winVisible /\ is_active /\ ~resetPending /\ ~downSeen) =>
        (~dragging /\ startX = 0 /\ startY = 0)

C17_PointerDownWhileDraggingIgnored ==
    [][ dragging => (startX' = startX /\ startY' = startY) ]_vars

\* C18: a pointer-move or pointer-up that arrives while no drag is in progress
\* changes nothing: the page's selection state, anchor and selection box, the
\* pending requests and the observed outcomes stay as they were.
C18_StrayMoveOrUpChangesNothing ==
    [][ (ignoredPtr' # "none" /\ ignoredPtr' # ignoredPtr) =>
            /\ ~dragging
            /\ UNCHANGED <<mgrVars, pageVars, reqVars, upObs, nCompleted, nCancelled>>
      ]_vars

\* A pointer-up was dropped after a finished gesture whose box is on display.
C18_Witness ==
    ignoredPtr = "up" /\ upObs # None /\ box.display /\ ~dragging

\* C19: bounds with a zero width or a zero height are never handed to the
\* capture call of the operating system.
C19_NoEmptyAreaCaptured ==
    capOsCall # None => (Get(capOsCall).width > 0 /\ Get(capOsCall).height > 0)

\* C20: a request for exactly the full screen passes the clamping unchanged.
C20_FullScreenRequestUnchanged ==
    (capOsCall # None /\ capReq = [x |-> 0, y |-> 0, width |-> ScreenW, height |-> ScreenH]) =>
        /\ Get(capOsCall) = capReq
        /\ capResult.success => capResult.bounds = Some(capReq)

\* The full screen was requested, captured and returned.
C20_Witness ==
    /\ capReq = [x |-> 0, y |-> 0, width |-> ScreenW, height |-> ScreenH]
    /\ capOsCall # None
    /\ capResult.success

\* C21: two hotkey handlers never race on the main window: the window that a
\* handler's look-up found absent is still absent when that handler runs
\* create_main_window, so no handler closes a window the other has just built.
C21_LookupAndCreateAreAtomic ==
    [][\A t \in Threads :
        (hkPc[t] = "creating" /\ hkPc'[t] = "idle") => MainLabel \notin windows]_vars

\* C22: nothing that happens in the overlay and capture path ends the host
\* process: after any sequence of hotkey triggers, selections, capture
\* failures and window closes the process is still running.
C22_ProcessKeepsRunning == running

\* A close was recorded less than 3 seconds before the present instant: the
\* recorded time is a whole number of seconds, the present instant is not.
ClosedRecently ==
    /\ last_window_closed_time # None
    /\ unixNow - Get(last_window_closed_time) * TicksPerSec < QuitWindowSecs * TicksPerSec

ProcessingInFlight == invokePc # "idle" \/ processingTimeout

\* C25: the double-trigger guard.  While a selection is being processed the
\* page is not ready, and a completed selection is accepted only when none is
\* being processed: at most one processing request is in flight.
C25_DoubleTriggerGuard ==
    /\ [](ProcessingInFlight => ~isReady)
    /\ [][nCompleted' = nCompleted + 1 => (isReady /\ ~ProcessingInFlight)]_vars

\* A drag of valid size was completed while the previous selection was still
\* being processed, and it was ignored.
C25_Witness ==
    /\ ProcessingInFlight
    /\ nCompleted = 1
    /\ upObs # None
    /\ ~Get(upObs).accepted
    /\ Get(upObs).bounds.width > MinSize /\ Get(upObs).bounds.height > MinSize

\* The step is a pointer-up that completes a drag of valid size.
ValidSelectionCompleted ==
    /\ dragging /\ ~dragging'
    /\ upObs' # None
    /\ Get(upObs').bounds.width > MinSize /\ Get(upObs').bounds.height > MinSize

\* C26: the double-trigger guard is always released: a page that is not ready
\* eventually becomes ready again, and in a session started on the reused
\* overlay, once resetSelection has run, the first valid selection is accepted.
C26_GuardAlwaysReleased ==
    /\ (~isReady) ~> isReady
    /\ [][(/\ ValidSelectionCompleted
           /\ lastShow \in {"reused", "reused_active"}
           /\ resetRan
           /\ nCompleted = 0) => Get(upObs').accepted]_vars

\* C27: after any sequence of show_selection_overlay, hide_overlay and
\* cleanup_if_old calls, failing ones included, an active manager holds an
\* overlay window.
C27_ActiveManagerHoldsWindow == is_active => overlay_window

\* The manager is active on a window it built after a cleanup had dropped the
\* previous one, and its last show returned an error.
C27_Witness ==
    /\ is_active /\ overlay_window
    /\ lastShow = "created" /\ hiddenAt # None
    /\ showRet = "err"

\* C28: a show_selection_overlay that returns an error leaves overlay_window,
\* is_active and last_used as they were before the call.
C28_FailedShowChangesNothing ==
    [][(showRet' = "err" /\ showRet # "err") =>
            UNCHANGED <<overlay_window, is_active, last_used>>]_vars

\* Shows have failed in both branches: on the pooled window while the manager
\* held one, and on creation after a cleanup whose close had failed.
C28_Witness ==
    /\ showRet = "err"
    /\ ~overlay_window /\ winExists
    /\ last_used # None

\* C29: a hide scheduled by a finished session never hides a later one: once
\* a show on the pooled overlay has returned Ok, the close command invoked by
\* the 150 ms hide timer hides the overlay only if that session has had a
\* terminal event of its own (a completed selection or a cancel).
C29_StaleHideNeverHidesLaterSession ==
    [][(/\ lastShow \in {"reused", "reused_active"}
        /\ is_active /\ winVisible
        /\ closeReqTimer' < closeReqTimer
        /\ ~is_active' \/ ~winVisible')
            => (nCompleted' > 0 \/ nCancelled' > 0)]_vars

\* C30: capture_screen_area, when it returns, returns a CaptureResult (never
\* an Err) that is consistent: success holds exactly when bounds and
\* image_data are both present, and on each of the four failure paths success
\* is false and both are absent.
C30_CaptureResultConsistent ==
    (capDone /\ ~capPanic) =>
        /\ capResult # NoResult
        /\ capResult.success <=> (capResult.bounds # None /\ capResult.image_data # None)
        /\ ~capResult.success => (capResult.bounds = None /\ capResult.image_data = None)
        /\ capResult.message \in {"Failed to access screens", "No screens available",
                                  "Screen capture failed", "Failed to encode image as PNG"}
              => ~capResult.success
        /\ capOsCall = None => ~capResult.success

\* The capture call was made and the PNG encoding of its image failed.
C30_Witness ==
    /\ capDone /\ ~capPanic
    /\ capOsCall # None
    /\ capResult.message = "Failed to encode image as PNG"

====
